---- MODULE Spec2Model ----
(***************************************************************************)
(* The Assembunny virtual machine of 2016/day_23 (self-modifying           *)
(* interpreter with idiom fusion), 2016/day_25 (clock-signal verifier and  *)
(* the search over initial values of register a) and 2016/day_12           *)
(* (run_program, with its inline peephole).                                *)
(*                                                                         *)
(* Registers a..d are the indices 0..3 of a Python list; a TLA+ sequence   *)
(* is 1-based, so register i is regs[i + 1] and the instruction at offset  *)
(* i is instructions[i + 1].  Python integers are unbounded: the model     *)
(* stops a run whose next register file would leave -MaxReg..MaxReg.       *)
(* Every decoded instruction has the operand count of its mnemonic (two    *)
(* for cpy and jnz, one for inc, dec, tgl and out).                        *)
(***************************************************************************)
EXTENDS Integers, Sequences, FiniteSets, TLC

\* ------------------------------------------------------------------ bounds
MaxReg == 6
MaxCalls == 2
MaxLen == 3
MaxA == 2
MaxVal == 2

\* ------------------------------------------------------ data model
Argument(is_reg, val) == [is_reg |-> is_reg, val |-> val]

Instruction(op, args) == [op |-> op, args |-> args]

R(i) == Argument(TRUE, i)
L(v) == Argument(FALSE, v)
cpy(x, y) == Instruction("CPY", <<x, y>>)
inc(x) == Instruction("INC", <<x>>)
dec(x) == Instruction("DEC", <<x>>)
jnz(x, y) == Instruction("JNZ", <<x, y>>)
tgl(x) == Instruction("TGL", <<x>>)
out(x) == Instruction("OUT", <<x>>)

\* Python list indexing: index k of a list of length len is valid for
\* -len <= k < len, a negative k counting from the end.
IndexOK(k, len) == -len <= k /\ k < len

PyIndex(k, len) == IF k < 0 THEN k + len ELSE k

\* self.regs[k]
RegGet(rs, k) == rs[PyIndex(k, 4) + 1]

\* self.regs[k] = v
RegSet(rs, k, v) == [rs EXCEPT ![PyIndex(k, 4) + 1] = v]

\* self.regs[x.val] if x.is_reg else x.val
Resolve(rs, x) == IF x.is_reg THEN rs[x.val + 1] ELSE x.val

InRange(rs) == \A i \in 1..4 : -MaxReg <= rs[i] /\ rs[i] <= MaxReg

\* ------------------------------------------------------ Idiom Analyzer
\* The instruction at offset i (0-based) of store ins.
At(ins, i) == ins[i + 1]

MulMatch(ins, i) ==
    /\ i + 5 < Len(ins)
    /\ At(ins, i).op = "CPY"
    /\ At(ins, i + 1).op = "INC"
    /\ At(ins, i + 2).op = "DEC"
    /\ At(ins, i + 3).op = "JNZ"
    /\ At(ins, i + 4).op = "DEC"
    /\ At(ins, i + 5).op = "JNZ"
    /\ ~At(ins, i + 3).args[2].is_reg
    /\ At(ins, i + 3).args[2].val = -2
    /\ ~At(ins, i + 5).args[2].is_reg
    /\ At(ins, i + 5).args[2].val = -5
    /\ At(ins, i + 2).args[1].val = At(ins, i).args[2].val
    /\ At(ins, i + 3).args[1].val = At(ins, i).args[2].val
    /\ At(ins, i + 5).args[1].val = At(ins, i + 4).args[1].val

MulEntry(ins, i) ==
    [skip |-> 6, op |-> "MUL",
     args |-> [target |-> At(ins, i + 1).args[1].val,
               src_arg |-> At(ins, i).args[1],
               outer |-> At(ins, i + 4).args[1].val,
               temp |-> At(ins, i).args[2].val]]

AddJnz(ins, i) ==
    /\ i + 2 < Len(ins)
    /\ At(ins, i + 2).op = "JNZ"
    /\ ~At(ins, i + 2).args[2].is_reg
    /\ At(ins, i + 2).args[2].val = -2

\* inc x, dec y, jnz y -2
AddMatchIncDec(ins, i) ==
    /\ AddJnz(ins, i)
    /\ At(ins, i).op = "INC"
    /\ At(ins, i + 1).op = "DEC"
    /\ At(ins, i + 2).args[1].val = At(ins, i + 1).args[1].val

\* dec y, inc x, jnz y -2
AddMatchDecInc(ins, i) ==
    /\ AddJnz(ins, i)
    /\ At(ins, i).op = "DEC"
    /\ At(ins, i + 1).op = "INC"
    /\ At(ins, i + 2).args[1].val = At(ins, i).args[1].val

AddEntry(target, source) ==
    [skip |-> 3, op |-> "ADD", args |-> [target |-> target, source |-> source]]

\* The scan going on at the next offset after a match, not past the
\* matched window.
RECURSIVE ScanEveryOffset(_, _, _)
ScanEveryOffset(ins, i, acc) ==
    IF ~(i < Len(ins)) THEN acc
    ELSE IF MulMatch(ins, i)
         THEN ScanEveryOffset(ins, i + 1, acc @@ (i :> MulEntry(ins, i)))
    ELSE IF AddMatchIncDec(ins, i)
         THEN ScanEveryOffset(ins, i + 1,
                   acc @@ (i :> AddEntry(At(ins, i).args[1].val,
                                         At(ins, i + 1).args[1].val)))
    ELSE IF AddMatchDecInc(ins, i)
         THEN ScanEveryOffset(ins, i + 1,
                   acc @@ (i :> AddEntry(At(ins, i + 1).args[1].val,
                                         At(ins, i).args[1].val)))
    ELSE ScanEveryOffset(ins, i + 1, acc)

RECURSIVE Scan(_, _, _)
Scan(ins, i, acc) ==
    IF ~(i < Len(ins)) THEN acc
    ELSE IF MulMatch(ins, i)
         THEN Scan(ins, i + 6, acc @@ (i :> MulEntry(ins, i)))
    ELSE IF AddMatchIncDec(ins, i)
         THEN Scan(ins, i + 3,
                   acc @@ (i :> AddEntry(At(ins, i).args[1].val,
                                         At(ins, i + 1).args[1].val)))
    ELSE IF AddMatchDecInc(ins, i)
         THEN Scan(ins, i + 3,
                   acc @@ (i :> AddEntry(At(ins, i + 1).args[1].val,
                                         At(ins, i).args[1].val)))
    ELSE Scan(ins, i + 1, acc)

\* The empty optimization map {}.
NoOptimizations == [k \in {} |-> 0]

find_optimizations(ins) == Scan(ins, 0, NoOptimizations)

\* ------------------------------------------------------ Execution Engine
\* A machine is the interpreter object together with the locals of the call
\* in progress: instructions, optimizations, regs, pc (the object's fields),
\* seen_states, next_expected, output_count (locals of test_clock_signal),
\* status ("running", "returned", or "error" for a raised IndexError),
\* ret (the value run returned) and verdict (what test_clock_signal
\* returned: "True", "False", or "none" before it returns).
Machine(ins, opt, rs, p) ==
    [instructions |-> ins, optimizations |-> opt, regs |-> rs, pc |-> p,
     seen_states |-> NoOptimizations, next_expected |-> 0, output_count |-> 0,
     status |-> "running", ret |-> 0, verdict |-> "none"]

Raise(m) == [m EXCEPT !.status = "error"]

\* The fused MUL update with the product left out: regs[target] += val.
ApplyMulOnce(m, e) ==
    LET a == e.args
        val == Resolve(m.regs, a.src_arg)
    IN  IF ~IndexOK(a.target, 4) \/ ~IndexOK(a.outer, 4) THEN Raise(m)
        ELSE LET r1 == RegSet(m.regs, a.target, RegGet(m.regs, a.target) + val)
             IN  IF ~IndexOK(a.temp, 4)
                 THEN [m EXCEPT !.regs = r1, !.status = "error"]
                 ELSE [m EXCEPT !.regs = RegSet(RegSet(r1, a.temp, 0), a.outer, 0),
                                !.pc = m.pc + e.skip]

\* The fused MUL update: regs[target] += val * regs[outer]; regs[temp] = 0;
\* regs[outer] = 0; pc += skip.  An operand that was a literal in the window
\* is used as a list index all the same.
ApplyMul(m, e) ==
    LET a == e.args
        val == Resolve(m.regs, a.src_arg)
    IN  IF ~IndexOK(a.target, 4) \/ ~IndexOK(a.outer, 4) THEN Raise(m)
        ELSE LET r1 == RegSet(m.regs, a.target,
                              RegGet(m.regs, a.target) + val * RegGet(m.regs, a.outer))
             IN  IF ~IndexOK(a.temp, 4)
                 THEN [m EXCEPT !.regs = r1, !.status = "error"]
                 ELSE [m EXCEPT !.regs = RegSet(RegSet(r1, a.temp, 0), a.outer, 0),
                                !.pc = m.pc + e.skip]

\* The fused ADD update with the source register left as it was.
ApplyAddKeep(m, e) ==
    LET a == e.args
    IN  IF ~IndexOK(a.target, 4) \/ ~IndexOK(a.source, 4) THEN Raise(m)
        ELSE [m EXCEPT !.regs = RegSet(m.regs, a.target,
                                       RegGet(m.regs, a.target) + RegGet(m.regs, a.source)),
                       !.pc = m.pc + e.skip]

\* The fused ADD update: regs[target] += regs[source]; regs[source] = 0;
\* pc += skip.
ApplyAdd(m, e) ==
    LET a == e.args
    IN  IF ~IndexOK(a.target, 4) \/ ~IndexOK(a.source, 4) THEN Raise(m)
        ELSE LET r1 == RegSet(m.regs, a.target,
                              RegGet(m.regs, a.target) + RegGet(m.regs, a.source))
             IN  [m EXCEPT !.regs = RegSet(r1, a.source, 0), !.pc = m.pc + e.skip]

ApplyMacro(m) ==
    LET e == m.optimizations[m.pc]
    IN  IF e.op = "MUL" THEN ApplyMul(m, e) ELSE ApplyAdd(m, e)

\* The opcode a TGL gives its target when every single-operand opcode but
\* DEC is turned into DEC.
ToggleOpDec(t) ==
    IF Len(t.args) = 1
    THEN (IF t.op = "DEC" THEN "INC" ELSE "DEC")
    ELSE (IF t.op = "JNZ" THEN "CPY" ELSE "JNZ")

\* The opcode a TGL gives its target when every single-operand instruction
\* becomes DEC.
ToggleOpAllDec(t) ==
    IF Len(t.args) = 1
    THEN "DEC"
    ELSE (IF t.op = "JNZ" THEN "CPY" ELSE "JNZ")

\* The opcode a TGL gives its target.
ToggleOp(t) ==
    IF Len(t.args) = 1
    THEN (IF t.op = "INC" THEN "DEC" ELSE "INC")
    ELSE (IF t.op = "JNZ" THEN "CPY" ELSE "JNZ")

\* The store after "target_instr.op = ..." at offset idx.
\* A toggle that flips every instruction of the store, not only the target.
ToggleAll(ins, idx) == [k \in DOMAIN ins |-> [ins[k] EXCEPT !.op = ToggleOp(ins[k])]]

Toggle(ins, idx) == [ins EXCEPT ![idx + 1].op = ToggleOp(ins[idx + 1])]

\* The TGL handler clearing the Optimization Map without scanning the
\* toggled store again.
ReanalyzeCleared(ins) == NoOptimizations

\* The TGL handler recomputes the Optimization Map from the toggled store.
Reanalyze(ins) == find_optimizations(ins)

\* The TGL handler without the call of find_optimizations: the map is left
\* as it was before the toggle.
ExecTglStale(m, args) ==
    LET val == Resolve(m.regs, args[1])
        target_idx == m.pc + val
    IN  IF 0 <= target_idx /\ target_idx < Len(m.instructions)
        THEN [m EXCEPT !.instructions = Toggle(m.instructions, target_idx),
                       !.pc = m.pc + 1]
        ELSE [m EXCEPT !.pc = m.pc + 1]

\* The TGL handler with the target checked as a Python list index: a
\* negative target down to -n toggles an instruction counted from the end.
ExecTglWrap(m, args) ==
    LET val == Resolve(m.regs, args[1])
        target_idx == m.pc + val
        n == Len(m.instructions)
    IN  IF IndexOK(target_idx, n)
        THEN LET ins2 == Toggle(m.instructions, PyIndex(target_idx, n))
             IN  [m EXCEPT !.instructions = ins2,
                           !.optimizations = Reanalyze(ins2),
                           !.pc = m.pc + 1]
        ELSE [m EXCEPT !.pc = m.pc + 1]

ExecTgl(m, args) ==
    LET val == Resolve(m.regs, args[1])
        target_idx == m.pc + val
    IN  IF 0 <= target_idx /\ target_idx < Len(m.instructions)
        THEN LET ins2 == Toggle(m.instructions, target_idx)
             IN  [m EXCEPT !.instructions = ins2,
                           !.optimizations = Reanalyze(ins2),
                           !.pc = m.pc + 1]
        ELSE [m EXCEPT !.pc = m.pc + 1]

ExecJnz(m, args) ==
    LET val == Resolve(m.regs, args[1])
    IN  IF val # 0
        THEN [m EXCEPT !.pc = m.pc + Resolve(m.regs, args[2])]
        ELSE [m EXCEPT !.pc = m.pc + 1]

\* One instruction of the if/elif chain shared by run and test_clock_signal
\* (CPY, INC, DEC, JNZ, TGL).
ExecInstr(m, instr) ==
    LET cmd == instr.op
        args == instr.args
    IN  CASE cmd = "CPY" ->
               IF args[2].is_reg
               THEN [m EXCEPT !.regs = RegSet(m.regs, args[2].val, Resolve(m.regs, args[1])),
                              !.pc = m.pc + 1]
               ELSE [m EXCEPT !.pc = m.pc + 1]
          [] cmd = "INC" ->
               IF args[1].is_reg
               THEN [m EXCEPT !.regs = RegSet(m.regs, args[1].val, m.regs[args[1].val + 1] + 1),
                              !.pc = m.pc + 1]
               ELSE [m EXCEPT !.pc = m.pc + 1]
          [] cmd = "DEC" ->
               IF args[1].is_reg
               THEN [m EXCEPT !.regs = RegSet(m.regs, args[1].val, m.regs[args[1].val + 1] - 1),
                              !.pc = m.pc + 1]
               ELSE [m EXCEPT !.pc = m.pc + 1]
          [] cmd = "JNZ" -> ExecJnz(m, args)
          [] cmd = "TGL" -> ExecTgl(m, args)
          [] OTHER -> [m EXCEPT !.pc = m.pc + 1]

\* The loop condition "while self.pc < self.n".
LoopCond(m) == m.pc < Len(m.instructions)

\* self.instructions[self.pc]: a negative pc indexes from the end of the
\* list, and a pc below -n raises IndexError.
FetchOK(m) == IndexOK(m.pc, Len(m.instructions))

Fetch(m) == m.instructions[PyIndex(m.pc, Len(m.instructions)) + 1]

\* One iteration of the while loop of AssembunnyInterpreter.run (Day 23).
run_iter(m) ==
    IF m.pc \in DOMAIN m.optimizations THEN ApplyMacro(m)
    ELSE IF ~FetchOK(m) THEN Raise(m)
    ELSE ExecInstr(m, Fetch(m))

\* The entry of run: registers and pc reset, the map recomputed from the
\* store as it stands; the store itself is left as the last call left it.
run_enter(ins, initial_a) ==
    Machine(ins, find_optimizations(ins), <<initial_a, 0, 0, 0>>, 0)

\* "return self.regs[0]"
run_exit(m) == [m EXCEPT !.status = "returned", !.ret = m.regs[1]]

\* ------------------------------------------------------ Signal Verifier
\* The loop body without the "return False" at an unexpected output: the
\* output is counted like any other.
clock_body_no_reject(m1) ==
    IF m1.pc \in DOMAIN m1.optimizations THEN ApplyMacro(m1)
    ELSE IF ~FetchOK(m1) THEN Raise(m1)
    ELSE LET instr == Fetch(m1)
         IN  IF instr.op = "OUT"
             THEN [m1 EXCEPT !.next_expected = 1 - m1.next_expected,
                             !.output_count = m1.output_count + 1,
                             !.pc = m1.pc + 1]
             ELSE ExecInstr(m1, instr)

\* The loop body with an accepted output counted but next_expected left
\* as it was.
clock_body_no_flip(m1) ==
    IF m1.pc \in DOMAIN m1.optimizations THEN ApplyMacro(m1)
    ELSE IF ~FetchOK(m1) THEN Raise(m1)
    ELSE LET instr == Fetch(m1)
         IN  IF instr.op = "OUT"
             THEN IF Resolve(m1.regs, instr.args[1]) # m1.next_expected
                  THEN [m1 EXCEPT !.status = "returned", !.verdict = "False"]
                  ELSE [m1 EXCEPT !.output_count = m1.output_count + 1,
                                  !.pc = m1.pc + 1]
             ELSE ExecInstr(m1, instr)

\* The loop body of test_clock_signal after the visited-state check: a
\* macro, an OUT, or one instruction of the shared if/elif chain.
clock_body(m1) ==
    IF m1.pc \in DOMAIN m1.optimizations THEN ApplyMacro(m1)
    ELSE IF ~FetchOK(m1) THEN Raise(m1)
    ELSE LET instr == Fetch(m1)
         IN  IF instr.op = "OUT"
             THEN IF Resolve(m1.regs, instr.args[1]) # m1.next_expected
                  THEN [m1 EXCEPT !.status = "returned", !.verdict = "False"]
                  ELSE [m1 EXCEPT !.next_expected = 1 - m1.next_expected,
                                  !.output_count = m1.output_count + 1,
                                  !.pc = m1.pc + 1]
             ELSE ExecInstr(m1, instr)

\* The verdict at a state key met before, with >= for >.
CycleVerdictGeq(m, state) ==
    [m EXCEPT !.status = "returned",
              !.verdict = IF m.output_count >= m.seen_states[state]
                          THEN "True" ELSE "False"]

\* The verdict at a state key met before.
CycleVerdict(m, state) ==
    [m EXCEPT !.status = "returned",
              !.verdict = IF m.output_count > m.seen_states[state]
                          THEN "True" ELSE "False"]

\* One iteration of the while loop of test_clock_signal (Day 25).
clock_iter(m) ==
    LET state == <<m.pc, m.regs, m.next_expected>>
    IN  IF state \in DOMAIN m.seen_states
        THEN CycleVerdict(m, state)
        ELSE clock_body([m EXCEPT !.seen_states =
                                    (state :> m.output_count) @@ m.seen_states])

\* The entry of test_clock_signal: registers, pc and the locals are reset;
\* the store and the Optimization Map are left as they stand on the object.
clock_enter(ins, opt, initial_a) == Machine(ins, opt, <<initial_a, 0, 0, 0>>, 0)

\* The "return False" after the loop.
clock_exit(m) == [m EXCEPT !.status = "returned", !.verdict = "False"]

\* ------------------------------------------------------ reference engine
\* The Execution Engine without the Idiom Analyzer: the same instruction
\* handlers, the Optimization Map held empty, so nothing is ever fused.
\* The repository has no such engine (run and test_clock_signal always
\* scan): this is the yardstick "executed one instruction at a time" that
\* the claims compare the interpreter with, kept in the variable ref, which
\* no step of the interpreter reads.
ref_iter(m) ==
    LET r == run_iter([m EXCEPT !.optimizations = NoOptimizations])
    IN  [r EXCEPT !.optimizations = NoOptimizations]

ref_enter(ins, rs, p) == Machine(ins, NoOptimizations, rs, p)

\* The Signal Verifier over the reference engine: nothing is fused, and a
\* state counts as met before only when the whole machine state, the
\* Instruction Store included, is the same.  Its verdict is whether the
\* program emits 0, 1, 0, 1, ... for ever.
truth_iter(m) ==
    LET state == <<m.pc, m.regs, m.next_expected, m.instructions>>
    IN  IF state \in DOMAIN m.seen_states
        THEN CycleVerdict(m, state)
        ELSE LET r == clock_body([m EXCEPT !.seen_states =
                                             (state :> m.output_count) @@ m.seen_states,
                                           !.optimizations = NoOptimizations])
             IN  [r EXCEPT !.optimizations = NoOptimizations]

\* ------------------------------------------------------------ state
VARIABLES
    loaded,         \* the program handed to __init__: decoded, or as text lines for the Decoder
    instructions,   \* self.instructions
    optimizations,  \* self.optimizations
    regs,           \* self.regs
    pc,             \* self.pc
    seen_states,    \* test_clock_signal's seen_states
    next_expected,  \* test_clock_signal's next_expected
    output_count,   \* test_clock_signal's output_count
    status,         \* "idle", "running", "returned", "error"
    ret,            \* the value the last run returned
    verdict,        \* the value the last test_clock_signal returned
    initial_a,      \* the argument of the call in progress (or the last one)
    history,        \* the completed calls on this object: <<argument, result>>
    ref,            \* a second machine the interpreter is compared with (no field of the program)
    edited,         \* a third machine: the program text edited at a toggle, or run_program's
    a,              \* solve's candidate
    solve_ret,      \* solve's return value (-2 while it is searching)
    toggles,        \* the toggles test_clock_signal has made: target, opcode before, opcode after
    first_seen      \* the store as it was when each key of seen_states was recorded

vars == <<loaded, instructions, optimizations, regs, pc, seen_states,
          next_expected, output_count, status, ret, verdict, initial_a,
          history, ref, edited, a, solve_ret, toggles, first_seen>>

Self ==
    [instructions |-> instructions, optimizations |-> optimizations,
     regs |-> regs, pc |-> pc, seen_states |-> seen_states,
     next_expected |-> next_expected, output_count |-> output_count,
     status |-> status, ret |-> ret, verdict |-> verdict]

SetSelf(m) ==
    /\ instructions' = m.instructions
    /\ optimizations' = m.optimizations
    /\ regs' = m.regs
    /\ pc' = m.pc
    /\ seen_states' = m.seen_states
    /\ next_expected' = m.next_expected
    /\ output_count' = m.output_count
    /\ status' = m.status
    /\ ret' = m.ret
    /\ verdict' = m.verdict

\* A machine that takes no part in the run.
Idle == [Machine(<<>>, NoOptimizations, <<0, 0, 0, 0>>, 0) EXCEPT !.status = "idle"]

NoEdit == [active |-> FALSE, target |-> 0, m |-> Idle]

\* ------------------------------------------------------------ inputs
SeqsUpTo(S, k) == UNION {[1..j -> S] : j \in 1..k}

InitialAs == 0..MaxA

\* Day 23 programs: every program of at most MaxLen instructions over a
\* small instruction alphabet, and some longer ones.
Alphabet23 ==
    {inc(R(0)), dec(R(0)), dec(R(1)), jnz(R(1), L(-2)), jnz(R(0), L(-1)),
     tgl(L(1)), cpy(L(2), R(1))}

Scenarios23 ==
    {<<cpy(L(2), R(1)), inc(R(0)), dec(R(1)), jnz(R(1), L(-2))>>,
     <<tgl(L(3)), inc(R(0)), dec(R(1)), jnz(R(1), L(-2))>>,
     <<tgl(R(0)), jnz(L(2), R(1)), inc(R(0)), dec(R(1)), jnz(R(1), L(-2))>>,
     <<inc(R(0)), dec(L(1)), jnz(R(1), L(-2))>>,
     <<tgl(L(2)), inc(R(1)), inc(R(0)), jnz(R(0), L(-2))>>,
     <<cpy(L(2), R(3)), cpy(R(0), R(2)), inc(R(0)), dec(R(2)),
       jnz(R(2), L(-2)), dec(R(3)), jnz(R(3), L(-5))>>,
     <<cpy(L(2), R(3)), cpy(L(1), R(2)), inc(R(0)), dec(R(2)),
       jnz(R(2), L(-2)), dec(R(3)), jnz(R(3), L(-5))>>}

Programs23 == SeqsUpTo(Alphabet23, MaxLen) \cup Scenarios23

\* ------------------------------------------------------ Day 23: run
\* AssembunnyInterpreter.__init__ of Day 23: the map starts empty.
Init ==
    /\ loaded \in Programs23
    /\ instructions = loaded
    /\ optimizations = NoOptimizations
    /\ regs = <<0, 0, 0, 0>>
    /\ pc = 0
    /\ seen_states = NoOptimizations
    /\ next_expected = 0
    /\ output_count = 0
    /\ status = "idle"
    /\ ret = 0
    /\ verdict = "none"
    /\ initial_a = 0
    /\ history = <<>>
    /\ toggles = <<>>
    /\ first_seen = NoOptimizations
    /\ ref = Idle
    /\ edited = NoEdit
    /\ a = 0
    /\ solve_ret = -2

\* The reference machine has nothing left to do within the bounds.
RefQuiet ==
    \/ ref.status # "running"
    \/ LoopCond(ref) /\ ~InRange(ref_iter(ref).regs)

\* The TGL at pc is about to turn the JNZ at a later offset into a CPY.
TogglesLaterJnz ==
    /\ pc \notin DOMAIN optimizations
    /\ FetchOK(Self)
    /\ Fetch(Self).op = "TGL"
    /\ LET t == pc + Resolve(regs, Fetch(Self).args[1])
       IN  /\ 0 <= pc
           /\ pc < t
           /\ t < Len(instructions)
           /\ At(instructions, t).op = "JNZ"

\* The program text with the instruction at offset t written as CPY.
EditedText(ins, t) == [ins EXCEPT ![t + 1].op = "CPY"]

\* The interpreter of the edited text, entered with the same argument and
\* placed where the toggling machine stands after its TGL.
EditedAt(t, rs, p) ==
    [active |-> TRUE, target |-> t,
     m |-> [run_enter(EditedText(instructions, t), initial_a)
              EXCEPT !.regs = rs, !.pc = p]]

EditedStep(e) ==
    IF ~e.active THEN e
    ELSE IF LoopCond(e.m) THEN [e EXCEPT !.m = run_iter(e.m)]
    ELSE [e EXCEPT !.m = run_exit(e.m)]

run_start(x) ==
    /\ status \in {"idle", "returned"}
    /\ Len(history) < MaxCalls
    /\ RefQuiet
    /\ SetSelf(run_enter(instructions, x))
    /\ initial_a' = x
    /\ ref' = ref_enter(instructions, <<x, 0, 0, 0>>, 0)
    /\ edited' = NoEdit
    /\ UNCHANGED <<loaded, history, toggles, first_seen, a, solve_ret>>

run_step ==
    /\ status = "running"
    /\ LoopCond(Self)
    /\ InRange(run_iter(Self).regs)
    /\ SetSelf(run_iter(Self))
    /\ edited' = IF ~edited.active /\ TogglesLaterJnz
                 THEN EditedAt(pc + Resolve(regs, Fetch(Self).args[1]),
                               run_iter(Self).regs, run_iter(Self).pc)
                 ELSE EditedStep(edited)
    /\ UNCHANGED <<loaded, initial_a, history, toggles, first_seen, ref, a, solve_ret>>

run_return ==
    /\ status = "running"
    /\ ~LoopCond(Self)
    /\ SetSelf(run_exit(Self))
    /\ history' = Append(history, <<initial_a, regs[1]>>)
    /\ UNCHANGED <<toggles, first_seen>>
    /\ edited' = EditedStep(edited)
    /\ UNCHANGED <<loaded, initial_a, ref, a, solve_ret>>

\* The reference run of the call that has ended: its next instruction, or
\* its return.  No variable of the interpreter changes.
ref_step ==
    /\ status \in {"returned", "error"}
    /\ ref.status = "running"
    /\ IF LoopCond(ref)
       THEN InRange(ref_iter(ref).regs) /\ ref' = ref_iter(ref)
       ELSE ref' = run_exit(ref)
    /\ UNCHANGED <<loaded, instructions, optimizations, regs, pc, seen_states,
                   next_expected, output_count, status, ret, verdict,
                   initial_a, history, toggles, first_seen, edited, a, solve_ret>>

\* A call of the public method find_optimizations between runs: the map is
\* computed from the store as it stands, nothing else changes.
analyze ==
    /\ status \in {"idle", "returned", "error"}
    /\ optimizations' = find_optimizations(instructions)
    /\ UNCHANGED <<loaded, instructions, regs, pc, seen_states, next_expected,
                   output_count, status, ret, verdict, initial_a, history,
                   toggles, first_seen, ref, edited, a, solve_ret>>

Next ==
    \/ \E x \in InitialAs : run_start(x)
    \/ run_step
    \/ run_return
    \/ ref_step
    \/ analyze

Spec == Init /\ [][Next]_vars

\* ------------------------------------------------------------ claims

\* C1: whenever run and the never-fusing reference interpreter both halt on
\* the same Instruction Store and initial a, they return the same register a.
C1_RunMatchesReference ==
    (status = "returned" /\ ref.status = "returned") => ret = ref.ret

\* C4: once pc is outside [0, len) no further instruction is executed: no
\* register, instruction or pc changes any more.
C4_HaltsOutsideBounds ==
    [][(status = "running" /\ (pc < 0 \/ pc >= Len(instructions)))
         => (regs' = regs /\ instructions' = instructions /\ pc' = pc)]_vars

\* C6: a second run on the same object with the same initial a returns the
\* value the first run returned (the Instruction Store is reset at entry).
C6_SecondRunSame ==
    \A i, j \in 1..Len(history) :
        history[i][1] = history[j][1] => history[i][2] = history[j][2]

\* C10: after a TGL has turned a later JNZ into a CPY, the run goes through
\* the same (pc, registers) states, and returns the same value, as the
\* interpreter of the program text in which that instruction is written CPY.
C10_ToggledRunsAsEdited ==
    edited.active =>
        /\ edited.m.pc = pc
        /\ edited.m.regs = regs
        /\ edited.m.status = status
        /\ edited.m.ret = ret

\* A run that toggled a later JNZ, went past it and returned.
C10_Witness ==
    /\ edited.active
    /\ status = "returned"
    /\ At(instructions, edited.target).op = "CPY"
    /\ pc > edited.target
    /\ ret # initial_a

\* ------------------------------------------------------ idiom windows
\* A matched window alone in the store, entered at its first instruction
\* with an arbitrary register file: the interpreter applies the macro in one
\* step, the reference engine executes the window instruction by instruction.
RegFiles == [1..4 -> -1..MaxVal]

AddWindows ==
    {<<inc(R(x)), dec(R(y)), jnz(R(y), L(-2))>> : x, y \in 0..3}
    \cup {<<dec(R(y)), inc(R(x)), jnz(R(y), L(-2))>> : x, y \in 0..3}

SrcArgs == {R(i) : i \in 0..3} \cup {L(-1), L(0), L(2)}

MulWindows ==
    {<<cpy(b, R(c)), inc(R(x)), dec(R(c)), jnz(R(c), L(-2)),
       dec(R(d)), jnz(R(d), L(-5))>> : x, c, d \in 0..3, b \in SrcArgs}

WindowInit(windows) ==
    /\ loaded \in windows
    /\ instructions = loaded
    /\ optimizations = find_optimizations(loaded)
    /\ regs \in RegFiles
    /\ pc = 0
    /\ seen_states = NoOptimizations
    /\ next_expected = 0
    /\ output_count = 0
    /\ status = "running"
    /\ ret = 0
    /\ verdict = "none"
    /\ initial_a = regs[1]
    /\ history = <<>>
    /\ toggles = <<>>
    /\ first_seen = NoOptimizations
    /\ ref = ref_enter(loaded, regs, 0)
    /\ edited = NoEdit
    /\ a = 0
    /\ solve_ret = -2

AddInit == WindowInit(AddWindows)

MulInit == WindowInit(MulWindows)

\* The interpreter's step at the window's first instruction: the macro.
window_fused ==
    /\ status = "running"
    /\ pc = 0
    /\ SetSelf(run_iter(Self))
    /\ UNCHANGED <<loaded, initial_a, history, toggles, first_seen, ref, edited, a, solve_ret>>

\* The reference engine's next instruction of the window.
window_step ==
    /\ pc # 0
    /\ ref.status = "running"
    /\ 0 <= ref.pc /\ ref.pc < Len(ref.instructions)
    /\ InRange(ref_iter(ref).regs)
    /\ ref' = ref_iter(ref)
    /\ UNCHANGED <<loaded, instructions, optimizations, regs, pc, seen_states,
                   next_expected, output_count, status, ret, verdict,
                   initial_a, history, toggles, first_seen, edited, a, solve_ret>>

WindowNext == window_fused \/ window_step

\* Neither engine stops while it has a step to take.
AddSpec == AddInit /\ [][WindowNext]_vars /\ WF_vars(WindowNext)

MulSpec == MulInit /\ [][WindowNext]_vars

\* The reference engine has left the window.
RefLeft == ~(0 <= ref.pc /\ ref.pc < Len(ref.instructions))

\* The reference engine's next register file is outside the model's range.
RefCapped == ~RefLeft /\ ~InRange(ref_iter(ref).regs)

\* C2: executed instruction by instruction, an ADD window is left with the
\* registers and the pc of the fused update x += y; y = 0; pc += 3.
C2_AddWindowAgrees ==
    <>((pc = 3 /\ RefLeft /\ ref.regs = regs /\ ref.pc = pc) \/ RefCapped)

\* C3: executed instruction by instruction, a MUL window is left with the
\* registers and the pc of the fused update a += b * d; c = 0; d = 0; pc += 6.
C3_MulWindowAgrees ==
    (pc # 0 /\ RefLeft) => (pc = 6 /\ ref.regs = regs /\ ref.pc = pc)

\* ------------------------------------------------ Day 25: test_clock_signal
Alphabet25 ==
    {out(R(0)), out(L(1)), inc(R(0)), dec(R(0)), cpy(L(1), R(1)),
     jnz(L(1), L(-2)), tgl(L(1)), tgl(R(0))}

Scenarios25 ==
    {<<out(L(0)), out(L(1)), jnz(L(1), L(-2))>>,
     <<out(L(0)), out(L(1)), tgl(L(-1)), jnz(L(1), L(-3))>>,
     <<out(L(0)), out(L(1)), cpy(L(1), L(-2)), tgl(L(-1))>>,
     <<tgl(L(2)), tgl(R(0)), out(R(0)), jnz(L(1), L(-2))>>,
     <<out(R(1)), inc(R(1)), out(R(1)), dec(R(1)), jnz(L(1), L(-4))>>,
     <<tgl(L(1)), jnz(L(1), L(-2)), inc(R(0)), jnz(L(1), L(-3))>>,
     <<jnz(L(1), L(-3)), out(L(0)), out(L(1)), jnz(L(1), L(-2))>>,
     <<tgl(L(-1)), inc(R(0)), out(R(0))>>,
     <<out(L(0)), cpy(L(1), R(1)), inc(R(2)), dec(R(1)), jnz(R(1), L(-2)),
       out(R(2)), jnz(L(1), L(-6))>>}

Programs25 == SeqsUpTo(Alphabet25, MaxLen) \cup Scenarios25

\* AssembunnyInterpreter.__init__ of Day 25: the map is computed at once.
ClockInit ==
    /\ loaded \in Programs25
    /\ instructions = loaded
    /\ optimizations = find_optimizations(loaded)
    /\ regs = <<0, 0, 0, 0>>
    /\ pc = 0
    /\ seen_states = NoOptimizations
    /\ next_expected = 0
    /\ output_count = 0
    /\ status = "idle"
    /\ ret = 0
    /\ verdict = "none"
    /\ initial_a = 0
    /\ history = <<>>
    /\ toggles = <<>>
    /\ first_seen = NoOptimizations
    /\ ref = Idle
    /\ edited = NoEdit
    /\ a = 0
    /\ solve_ret = -2

clock_start(x) ==
    /\ status = "idle"
    /\ SetSelf(clock_enter(instructions, optimizations, x))
    /\ initial_a' = x
    /\ ref' = ref_enter(instructions, <<x, 0, 0, 0>>, 0)
    /\ UNCHANGED <<loaded, history, toggles, first_seen, edited, a, solve_ret>>

\* This iteration of test_clock_signal in machine m executes an instruction
\* of opcode op: the state key is new, no macro stands at pc, the fetch
\* succeeds.
ClockExecutes(m, op) ==
    /\ m.status = "running"
    /\ LoopCond(m)
    /\ <<m.pc, m.regs, m.next_expected>> \notin DOMAIN m.seen_states
    /\ m.pc \notin DOMAIN m.optimizations
    /\ FetchOK(m)
    /\ Fetch(m).op = op

\* "target_idx = self.pc + val" of the TGL at pc.
TargetIdx(m) == m.pc + Resolve(m.regs, Fetch(m).args[1])

\* The toggles made so far, with the one this iteration makes.
ToggleLog(m) ==
    IF /\ ClockExecutes(m, "TGL")
       /\ 0 <= TargetIdx(m)
       /\ TargetIdx(m) < Len(m.instructions)
    THEN Append(toggles,
                [target |-> TargetIdx(m),
                 before |-> At(m.instructions, TargetIdx(m)).op,
                 after |-> At(clock_iter(m).instructions, TargetIdx(m)).op])
    ELSE toggles

\* The store at the moment test_clock_signal records a key it has not met.
FirstSeenLog(m) ==
    LET state == <<m.pc, m.regs, m.next_expected>>
    IN  IF state \in DOMAIN m.seen_states THEN first_seen
        ELSE (state :> m.instructions) @@ first_seen

clock_step ==
    /\ status = "running"
    /\ LoopCond(Self)
    /\ InRange(clock_iter(Self).regs)
    /\ SetSelf(clock_iter(Self))
    /\ toggles' = ToggleLog(Self)
    /\ first_seen' = FirstSeenLog(Self)
    /\ UNCHANGED <<loaded, initial_a, history, ref, edited, a, solve_ret>>

clock_return ==
    /\ status = "running"
    /\ ~LoopCond(Self)
    /\ SetSelf(clock_exit(Self))
    /\ UNCHANGED <<loaded, initial_a, history, toggles, first_seen, ref, edited, a, solve_ret>>

\* The reference verdict for the call that has ended: the next step of the
\* Signal Verifier over the reference engine.  No variable of the
\* interpreter changes.
truth_step ==
    /\ status \in {"returned", "error"}
    /\ ref.status = "running"
    /\ IF LoopCond(ref)
       THEN InRange(truth_iter(ref).regs) /\ ref' = truth_iter(ref)
       ELSE ref' = clock_exit(ref)
    /\ UNCHANGED <<loaded, instructions, optimizations, regs, pc, seen_states,
                   next_expected, output_count, status, ret, verdict,
                   initial_a, history, toggles, first_seen, edited, a, solve_ret>>

ClockNext ==
    \/ \E x \in InitialAs : clock_start(x)
    \/ clock_step
    \/ clock_return
    \/ truth_step

ClockSpec == ClockInit /\ [][ClockNext]_vars

\* C5: test_clock_signal returns True exactly when the program, executed one
\* instruction at a time from a = initial_a, emits 0, 1, 0, 1, ... for ever.
C5_VerdictIsTruth ==
    (status = "returned" /\ ref.status \in {"returned", "error"})
        => (verdict = "True" <=> ref.verdict = "True")

\* The opcode the rule of C9 gives an instruction.
ClaimedToggle(t) ==
    CASE Len(t.args) = 1 /\ t.op = "INC" -> "DEC"
      [] Len(t.args) = 1 /\ t.op \in {"DEC", "TGL", "OUT"} -> "INC"
      [] Len(t.args) = 2 /\ t.op = "JNZ" -> "CPY"
      [] Len(t.args) = 2 /\ t.op = "CPY" -> "JNZ"

\* This step executes the TGL at pc.
TglExecutes ==
    /\ status = "running"
    /\ LoopCond(Self)
    /\ pc \notin DOMAIN optimizations
    /\ FetchOK(Self)
    /\ Fetch(Self).op = "TGL"
    /\ status' = "running"
    /\ pc' = pc + 1

\* pc plus the TGL's offset, read from a register when the operand is one.
TglTarget ==
    pc + (IF Fetch(Self).args[1].is_reg
          THEN regs[Fetch(Self).args[1].val + 1]
          ELSE Fetch(Self).args[1].val)

\* C9: a TGL whose target lies in [0, len) changes the target's opcode by
\* the rule INC -> DEC, other one-operand opcodes -> INC, JNZ <-> CPY.
C9_ToggleRule ==
    [][(TglExecutes /\ 0 <= TglTarget /\ TglTarget < Len(instructions))
         => instructions' =
              [instructions EXCEPT ![TglTarget + 1].op =
                                       ClaimedToggle(instructions[TglTarget + 1])]]_vars

\* A store in which one TGL has turned a JNZ into CPY, its offset read from
\* a register, and another an OUT into INC.
C9_Witness ==
    /\ status = "running"
    /\ \E i, j, k \in 1..Len(loaded) :
          /\ loaded[i].op = "JNZ" /\ instructions[i].op = "CPY"
          /\ loaded[j].op = "OUT" /\ instructions[j].op = "INC"
          /\ loaded[k].op = "TGL" /\ loaded[k].args[1].is_reg
          /\ i = (k - 1) + initial_a + 1

\* ------------------------------------------------------------ Day 25: solve
\* The last candidate solve tries ("if a > 10000: break").
SafetyBreak == 10000

\* A program whose signal is right exactly for a = k: the fused addition
\* leaves a - k in a, and the clock is reached only when that is zero.
OnlyAt(k) ==
    <<cpy(L(-k), R(1)), inc(R(0)), dec(R(1)), jnz(R(1), L(-2)),
      jnz(R(0), L(4)), out(L(0)), out(L(1)), jnz(L(1), L(-2))>>

SolvePrograms ==
    {<<out(L(0)), out(L(1)), jnz(L(1), L(-2))>>,
     OnlyAt(2),
     OnlyAt(SafetyBreak),
     OnlyAt(SafetyBreak + 1),
     <<out(L(0)), out(L(1)), cpy(L(1), L(-2)), tgl(L(-1))>>,
     <<out(R(0)), out(L(1)), tgl(L(-1)), jnz(L(1), L(-3))>>,
     <<out(L(1))>>,
     <<out(L(0)), jnz(L(1), L(-3))>>,
     <<jnz(L(1), L(-2))>>}

\* "interpreter = AssembunnyInterpreter(instructions); a = 0"
SolveInit ==
    /\ loaded \in SolvePrograms
    /\ instructions = loaded
    /\ optimizations = find_optimizations(loaded)
    /\ regs = <<0, 0, 0, 0>>
    /\ pc = 0
    /\ seen_states = NoOptimizations
    /\ next_expected = 0
    /\ output_count = 0
    /\ status = "idle"
    /\ ret = 0
    /\ verdict = "none"
    /\ initial_a = 0
    /\ history = <<>>
    /\ toggles = <<>>
    /\ first_seen = NoOptimizations
    /\ ref = Idle
    /\ edited = NoEdit
    /\ a = 0
    /\ solve_ret = -2

\* "interpreter.test_clock_signal(a)" on the shared interpreter; beside it
\* the same call on a freshly loaded copy of the program.
solve_call ==
    /\ status = "idle"
    /\ solve_ret = -2
    /\ SetSelf(clock_enter(instructions, optimizations, a))
    /\ initial_a' = a
    /\ ref' = clock_enter(loaded, find_optimizations(loaded), a)
    /\ UNCHANGED <<loaded, history, toggles, first_seen, edited, a, solve_ret>>

\* One iteration of test_clock_signal for the candidate, or its exit.
test_step ==
    /\ status = "running"
    /\ SetSelf(IF LoopCond(Self) THEN clock_iter(Self) ELSE clock_exit(Self))
    /\ UNCHANGED <<loaded, initial_a, history, toggles, first_seen, ref, edited, a, solve_ret>>

\* The freshly loaded copy runs test_clock_signal.
fresh_step ==
    /\ status = "returned"
    /\ ref.status = "running"
    /\ ref' = IF LoopCond(ref) THEN clock_iter(ref) ELSE clock_exit(ref)
    /\ UNCHANGED <<loaded, instructions, optimizations, regs, pc, seen_states,
                   next_expected, output_count, status, ret, verdict,
                   initial_a, history, toggles, first_seen, edited, a, solve_ret>>

\* The rest of the loop body with the break at a >= SafetyBreak.
solve_verdict_early ==
    /\ status = "returned"
    /\ solve_ret = -2
    /\ IF verdict = "True"
       THEN /\ solve_ret' = a
            /\ a' = a
            /\ status' = "done"
       ELSE /\ a' = a + 1
            /\ solve_ret' = IF a + 1 >= SafetyBreak THEN -1 ELSE solve_ret
            /\ status' = IF a + 1 >= SafetyBreak THEN "done" ELSE "idle"
    /\ ref' = Idle
    /\ UNCHANGED <<loaded, instructions, optimizations, regs, pc, seen_states,
                   next_expected, output_count, ret, verdict, initial_a,
                   history, toggles, first_seen, edited>>

\* "return a" on True; otherwise "a += 1", and "return -1" past SafetyBreak.
solve_verdict ==
    /\ status = "returned"
    /\ solve_ret = -2
    /\ IF verdict = "True"
       THEN /\ solve_ret' = a
            /\ a' = a
            /\ status' = "done"
       ELSE /\ a' = a + 1
            /\ solve_ret' = IF a + 1 > SafetyBreak THEN -1 ELSE solve_ret
            /\ status' = IF a + 1 > SafetyBreak THEN "done" ELSE "idle"
    /\ ref' = Idle
    /\ UNCHANGED <<loaded, instructions, optimizations, regs, pc, seen_states,
                   next_expected, output_count, ret, verdict, initial_a,
                   history, toggles, first_seen, edited>>

SolveNext ==
    \/ solve_call
    \/ test_step
    \/ fresh_step
    \/ solve_verdict

SolveSpec == SolveInit /\ [][SolveNext]_vars

\* The call for candidate a has come back with verdict v.
CameBack(v) ==
    status = "returned" /\ initial_a = a /\ verdict = v

\* C7: solve starts at a = 0, leaves a candidate only for the next one and
\* only after its test came back False, returns a candidate in
\* [0, SafetyBreak] only when its test came back True, and returns -1 only
\* when the test of SafetyBreak itself came back False.
C7_SearchSmallest ==
    /\ a = 0
    /\ solve_ret = -2
    /\ [][/\ a' # a => (a' = a + 1 /\ CameBack("False"))
          /\ solve_ret' # solve_ret =>
               \/ (solve_ret' = a /\ a' = a /\ a \in 0..SafetyBreak /\ CameBack("True"))
               \/ (solve_ret' = -1 /\ a = SafetyBreak /\ CameBack("False"))]_vars

\* solve has returned the last candidate of the range.
C7_Witness ==
    /\ solve_ret = SafetyBreak
    /\ a = SafetyBreak
    /\ status = "done"

\* C8: the verdict the search computes for a candidate is the verdict of
\* test_clock_signal on a freshly loaded copy of the program.
C8_VerdictIsFresh ==
    (status = "returned" /\ ref.status = "returned") => verdict = ref.verdict

\* Entries i < j of the toggle log are two toggles of one instruction with
\* no toggle of it in between.
NextToggle(i, j) ==
    /\ i < j
    /\ toggles[i].target = toggles[j].target
    /\ \A k \in (i + 1)..(j - 1) : toggles[k].target # toggles[i].target

\* C11: two successive toggles of one instruction whose opcode is INC, DEC,
\* JNZ or CPY give it back that opcode.
C11_TwiceRestores ==
    \A i, j \in 1..Len(toggles) :
        (NextToggle(i, j) /\ toggles[i].before \in {"INC", "DEC", "JNZ", "CPY"})
            => toggles[j].after = toggles[i].before

\* A JNZ toggled to CPY and, on the next pass of the loop, back.
C11_Witness ==
    \E i, j \in 1..Len(toggles) :
        /\ NextToggle(i, j)
        /\ toggles[i].before = "JNZ"
        /\ toggles[i].after = "CPY"
        /\ toggles[j].after = "JNZ"

\* C12: a TGL whose target is outside [0, len) raises nothing and changes
\* nothing but pc, which advances by 1.
C12_TglOutsideOnlyAdvances ==
    [][(/\ ClockExecutes(Self, "TGL")
        /\ ~(0 <= TargetIdx(Self) /\ TargetIdx(Self) < Len(instructions)))
         => /\ status' = "running"
            /\ pc' = pc + 1
            /\ instructions' = instructions
            /\ regs' = regs
            /\ optimizations' = optimizations]_vars

\* The run has just executed a TGL at offset 0 whose target is -1.
C12_Witness ==
    /\ status = "running"
    /\ loaded[1] = tgl(L(-1))
    /\ pc = 1
    /\ <<0, regs, 0>> \in DOMAIN seen_states
    /\ instructions = loaded
    /\ regs = <<initial_a, 0, 0, 0>>

\* C13: no step of run raises a runtime error, whatever toggles, jumps,
\* literal operands in fused windows or register-valued offsets occur.
C13_NoRuntimeError == status # "error"

\* ------------------------------------------------- Day 12: run_program
\* parsed_instrs[k]
At12(m, k) == m.instructions[PyIndex(k, Len(m.instructions)) + 1]

\* The condition of the peephole on the two instructions after pc: the
\* third is "jnz r -2" with r the register whose index is the value of the
\* second instruction's first operand.
PeepholeJnz(m) ==
    /\ m.pc + 2 < Len(m.instructions)
    /\ At12(m, m.pc + 2).op = "JNZ"
    /\ At12(m, m.pc + 2).args[1] = R(At12(m, m.pc + 1).args[1].val)
    /\ At12(m, m.pc + 2).args[2] = L(-2)

PeepholeIncDec(m) ==
    PeepholeJnz(m) /\ At12(m, m.pc).op = "INC" /\ At12(m, m.pc + 1).op = "DEC"

PeepholeDecInc(m) ==
    PeepholeJnz(m) /\ At12(m, m.pc).op = "DEC" /\ At12(m, m.pc + 1).op = "INC"

\* The if/elif chain of run_program: no operand is checked to be a
\* register, and the offset of a jnz is taken unresolved.
Exec12(m, instr) ==
    LET cmd == instr.op
        args == instr.args
    IN  CASE cmd = "CPY" ->
               IF IndexOK(args[2].val, 4)
               THEN [m EXCEPT !.regs = RegSet(m.regs, args[2].val, Resolve(m.regs, args[1])),
                              !.pc = m.pc + 1]
               ELSE Raise(m)
          [] cmd = "INC" ->
               IF IndexOK(args[1].val, 4)
               THEN [m EXCEPT !.regs = RegSet(m.regs, args[1].val, RegGet(m.regs, args[1].val) + 1),
                              !.pc = m.pc + 1]
               ELSE Raise(m)
          [] cmd = "DEC" ->
               IF IndexOK(args[1].val, 4)
               THEN [m EXCEPT !.regs = RegSet(m.regs, args[1].val, RegGet(m.regs, args[1].val) - 1),
                              !.pc = m.pc + 1]
               ELSE Raise(m)
          [] cmd = "JNZ" ->
               IF Resolve(m.regs, args[1]) # 0
               THEN [m EXCEPT !.pc = m.pc + args[2].val]
               ELSE [m EXCEPT !.pc = m.pc + 1]
          [] OTHER -> [m EXCEPT !.pc = m.pc + 1]

\* One iteration of the while loop of run_program.
run12_iter(m) ==
    IF ~FetchOK(m) THEN Raise(m)
    ELSE IF PeepholeIncDec(m)
         THEN ApplyAdd(m, AddEntry(At12(m, m.pc).args[1].val,
                                   At12(m, m.pc + 1).args[1].val))
    ELSE IF PeepholeDecInc(m)
         THEN ApplyAdd(m, AddEntry(At12(m, m.pc + 1).args[1].val,
                                   At12(m, m.pc).args[1].val))
    ELSE Exec12(m, Fetch(m))

\* The registers run_program starts from, and its return.
run12_enter(ins, rs) == Machine(ins, NoOptimizations, rs, 0)

run12_exit(m) == [m EXCEPT !.status = "returned", !.ret = m.regs[1]]

Alphabet12 ==
    {inc(R(0)), dec(R(1)), inc(L(1)), dec(L(7)), cpy(R(0), R(1)),
     cpy(L(1), L(2)), jnz(R(1), L(-2)), jnz(L(1), R(2)), jnz(R(0), L(2))}

Scenarios12 ==
    {<<jnz(L(1), R(2)), inc(R(0)), inc(R(0))>>,
     <<cpy(L(1), R(2)), jnz(L(1), R(2)), inc(R(0)), inc(R(0))>>,
     <<dec(R(1)), inc(R(0)), jnz(R(1), L(-2))>>,
     <<dec(R(1)), inc(R(0)), jnz(R(0), L(-2))>>}

\* The programs of test_peephole_add and test_peephole_add_reversed:
\* cpy B b; cpy A a; inc a; dec b; jnz b -2, and the same with dec b; inc a.
AddProgram(A, B) ==
    <<cpy(L(B), R(1)), cpy(L(A), R(0)), inc(R(0)), dec(R(1)), jnz(R(1), L(-2))>>

AddProgramReversed(A, B) ==
    <<cpy(L(B), R(1)), cpy(L(A), R(0)), dec(R(1)), inc(R(0)), jnz(R(1), L(-2))>>

AddPrograms ==
    {AddProgram(A, B) : A \in -MaxVal..MaxVal, B \in 1..MaxVal + 1}
        \cup {AddProgramReversed(A, B) : A \in -MaxVal..MaxVal, B \in 1..MaxVal + 1}

Programs12 == SeqsUpTo(Alphabet12, MaxLen) \cup Scenarios12 \cup AddPrograms

\* initial_registers
RegFiles12 == [1..4 -> 0..1]

Init12 ==
    /\ loaded \in Programs12
    /\ instructions = loaded
    /\ optimizations = NoOptimizations
    /\ regs \in RegFiles12
    /\ pc = 0
    /\ seen_states = NoOptimizations
    /\ next_expected = 0
    /\ output_count = 0
    /\ status = "running"
    /\ ret = 0
    /\ verdict = "none"
    /\ initial_a = regs[1]
    /\ history = <<>>
    /\ toggles = <<>>
    /\ first_seen = NoOptimizations
    /\ ref = Idle
    /\ edited = NoEdit
    /\ a = 0
    /\ solve_ret = -2

run12_step ==
    /\ status = "running"
    /\ LoopCond(Self)
    /\ InRange(run12_iter(Self).regs)
    /\ SetSelf(run12_iter(Self))
    /\ UNCHANGED <<loaded, initial_a, history, toggles, first_seen, ref,
                   edited, a, solve_ret>>

run12_return ==
    /\ status = "running"
    /\ ~LoopCond(Self)
    /\ SetSelf(run12_exit(Self))
    /\ UNCHANGED <<loaded, initial_a, history, toggles, first_seen, ref,
                   edited, a, solve_ret>>

Next12 == run12_step \/ run12_return

Spec12 == Init12 /\ [][Next12]_vars

\* This iteration of run_program executes, unfused, an instruction of
\* opcode op.
Executes12(op) ==
    /\ status = "running"
    /\ LoopCond(Self)
    /\ FetchOK(Self)
    /\ ~PeepholeIncDec(Self)
    /\ ~PeepholeDecInc(Self)
    /\ Fetch(Self).op = op

\* C14: a CPY whose destination is not a register, and an INC or DEC whose
\* operand is not a register, leaves registers and store alone, raises
\* nothing and advances pc by 1.
C14_NonRegisterIsNoOp ==
    [][(\/ Executes12("CPY") /\ ~Fetch(Self).args[2].is_reg
        \/ Executes12("INC") /\ ~Fetch(Self).args[1].is_reg
        \/ Executes12("DEC") /\ ~Fetch(Self).args[1].is_reg)
         => /\ regs' = regs
            /\ instructions' = instructions
            /\ status' = "running"
            /\ pc' = pc + 1]_vars

\* C15: a JNZ leaves the registers alone and moves pc by the resolved
\* offset (a register offset read from the register) when the resolved
\* condition is non-zero, by 1 when it is zero.
C15_JnzRule ==
    [][Executes12("JNZ")
         => /\ regs' = regs
            /\ pc' = IF Resolve(regs, Fetch(Self).args[1]) # 0
                     THEN pc + Resolve(regs, Fetch(Self).args[2])
                     ELSE pc + 1]_vars

\* The state key of the interpreter.
Key == <<pc, regs, next_expected>>

\* C16: at a state key met before, test_clock_signal returns True iff the
\* output count is greater than the count recorded with the key; the
\* program out 0; out 1; jnz 1 -2 returns True for every initial a.
C16_CycleVerdict ==
    /\ []((status = "returned"
           /\ loaded = <<out(L(0)), out(L(1)), jnz(L(1), L(-2))>>)
            => verdict = "True")
    /\ [][(status = "running" /\ LoopCond(Self) /\ Key \in DOMAIN seen_states)
            => /\ status' = "returned"
               /\ verdict' = "True" <=> output_count > seen_states[Key]]_vars

\* out 0; out 1; jnz 1 -2 has come back to its first key after two outputs.
C16_Witness ==
    /\ status = "returned"
    /\ loaded = <<out(L(0)), out(L(1)), jnz(L(1), L(-2))>>
    /\ initial_a = MaxA
    /\ Key \in DOMAIN seen_states
    /\ seen_states[Key] = 0
    /\ output_count = 2
    /\ verdict = "True"

\* C17: an OUT whose value is not next_expected makes test_clock_signal
\* return False at that step, and nothing is executed after a return.
C17_WrongOutputRejects ==
    [][/\ (ClockExecutes(Self, "OUT")
           /\ Resolve(regs, Fetch(Self).args[1]) # next_expected)
            => /\ status' = "returned"
               /\ verdict' = "False"
               /\ pc' = pc
               /\ regs' = regs
               /\ instructions' = instructions
               /\ output_count' = output_count
       /\ status = "returned"
            => /\ status' = "returned"
               /\ verdict' = verdict
               /\ pc' = pc
               /\ regs' = regs
               /\ instructions' = instructions]_vars

\* A second output equal to the first has been rejected.
C17_Witness ==
    /\ status = "returned"
    /\ verdict = "False"
    /\ output_count = 1
    /\ next_expected = 1
    /\ LoopCond(Self)
    /\ FetchOK(Self)
    /\ Fetch(Self).op = "OUT"
    /\ Resolve(regs, Fetch(Self).args[1]) = 0

\* C18: a call in which pc has been outside [0, len) returns False.
C18_LeavingBoundsGivesFalse ==
    (/\ status = "returned"
     /\ \/ ~(0 <= pc /\ pc < Len(instructions))
        \/ \E k \in DOMAIN seen_states : ~(0 <= k[1] /\ k[1] < Len(instructions)))
        => verdict = "False"

\* C19: every call of test_clock_signal ends by returning a verdict: a
\* call that is over has returned True or False (after a halt, a rejected
\* output or a repeated state key) and has not left by an exception.
C19_EndsWithVerdict ==
    status \notin {"idle", "running"}
        => (status = "returned" /\ verdict \in {"True", "False"})

\* ------------------------------------------------- the multiply program
\* The three engines on one program: AssembunnyInterpreter.run (Day 23,
\* MUL and ADD macros), run_program (Day 12, the ADD peephole only) and the
\* reference engine (every instruction executed singly).  The three calls
\* are made one after the other, each from all-zero registers.
MaxFactor == 3

\* cpy X a; cpy Y b; cpy Z c; inc a; dec c; jnz c -2; dec b; jnz b -5
MulProgram(X, Y, Z) ==
    <<cpy(L(X), R(0)), cpy(L(Y), R(1)), cpy(L(Z), R(2)),
      inc(R(0)), dec(R(2)), jnz(R(2), L(-2)), dec(R(1)), jnz(R(1), L(-5))>>

MulPrograms ==
    {MulProgram(X, Y, Z) : X \in 1..MaxFactor, Y \in 1..MaxFactor, Z \in 1..MaxFactor}
        \cup {MulProgram(2, 3, 4)}

ProductInit ==
    /\ loaded \in MulPrograms
    /\ instructions = loaded
    /\ optimizations = run_enter(loaded, 0).optimizations
    /\ regs = <<0, 0, 0, 0>>
    /\ pc = 0
    /\ seen_states = NoOptimizations
    /\ next_expected = 0
    /\ output_count = 0
    /\ status = "running"
    /\ ret = 0
    /\ verdict = "none"
    /\ initial_a = 0
    /\ history = <<>>
    /\ ref = [ref_enter(loaded, <<0, 0, 0, 0>>, 0) EXCEPT !.status = "idle"]
    /\ edited = [active |-> TRUE, target |-> 0,
                 m |-> [run12_enter(loaded, <<0, 0, 0, 0>>) EXCEPT !.status = "idle"]]
    /\ a = 0
    /\ solve_ret = -2
    /\ toggles = <<>>
    /\ first_seen = NoOptimizations

\* One iteration of run's loop, or its return.
product_run ==
    /\ status = "running"
    /\ SetSelf(IF LoopCond(Self) THEN run_iter(Self) ELSE run_exit(Self))
    /\ ref' = IF LoopCond(Self) THEN ref ELSE [ref EXCEPT !.status = "running"]
    /\ UNCHANGED <<loaded, initial_a, history, edited, a, solve_ret, toggles, first_seen>>

\* One instruction of the reference engine, or its return.
product_single ==
    /\ ref.status = "running"
    /\ ref' = IF LoopCond(ref) THEN ref_iter(ref) ELSE run_exit(ref)
    /\ edited' = IF LoopCond(ref) THEN edited
                 ELSE [edited EXCEPT !.m.status = "running"]
    /\ UNCHANGED <<loaded, instructions, optimizations, regs, pc, seen_states,
                   next_expected, output_count, status, ret, verdict,
                   initial_a, history, a, solve_ret, toggles, first_seen>>

\* One iteration of run_program's loop, or its return.
product_plain ==
    /\ edited.m.status = "running"
    /\ edited' = [edited EXCEPT !.m = IF LoopCond(edited.m) THEN run12_iter(edited.m)
                                      ELSE run12_exit(edited.m)]
    /\ UNCHANGED <<loaded, instructions, optimizations, regs, pc, seen_states,
                   next_expected, output_count, status, ret, verdict,
                   initial_a, history, ref, a, solve_ret, toggles, first_seen>>

ProductNext == product_run \/ product_single \/ product_plain

\* Each call runs on until it returns: nothing else is scheduled.
ProductSpec == ProductInit /\ [][ProductNext]_vars /\ WF_vars(ProductNext)

ProductOf(ins) == ins[1].args[1].val + ins[2].args[1].val * ins[3].args[1].val

\* C21: on cpy X a; cpy Y b; cpy Z c; inc a; dec c; jnz c -2; dec b;
\* jnz b -5 with positive X, Y, Z, each of the three engines (MUL macro,
\* ADD macro only, every instruction singly) halts, raises nothing, and
\* returns a = X + Y * Z (14 for 2, 3, 4).
C21_ProductAgrees ==
    /\ [](/\ status # "error" /\ ref.status # "error" /\ edited.m.status # "error"
          /\ status = "returned" => ret = ProductOf(loaded)
          /\ ref.status = "returned" => ref.ret = ProductOf(loaded)
          /\ edited.m.status = "returned" => edited.m.ret = ProductOf(loaded))
    /\ <>(/\ status = "returned" /\ ref.status = "returned"
          /\ edited.m.status = "returned")

C21_Witness ==
    /\ loaded = MulProgram(2, 3, 4)
    /\ 2 \in DOMAIN optimizations /\ optimizations[2].op = "MUL"
    /\ status = "returned" /\ ret = 14
    /\ ref.status = "returned" /\ ref.ret = 14
    /\ edited.m.status = "returned" /\ edited.m.ret = 14

\* ------------------------------------------------- the addition programs
\* C22: run_program on cpy B b; cpy A a; inc a; dec b; jnz b -2, and on the
\* same program with dec b; inc a, for any A and positive B: nothing is
\* raised, at the head of the loop b is positive and a + b = A + B (so the
\* loop ends), and the call returns with a = A + B and b = 0.
C22_PeepholeAdd ==
    loaded \in AddPrograms =>
        LET A == loaded[2].args[1].val
            B == loaded[1].args[1].val
        IN  /\ status # "error"
            /\ (status = "running" /\ pc = 2) =>
                    (regs[2] > 0 /\ regs[1] + regs[2] = A + B)
            /\ status = "returned" => (regs[1] = A + B /\ regs[2] = 0 /\ ret = A + B)

C22_Witness ==
    /\ loaded = AddProgramReversed(2, 3)
    /\ status = "returned"
    /\ regs[1] = 5 /\ regs[2] = 0

\* ------------------------------------------------------------- Decoder
\* A line of text is a sequence of characters, a token a non-empty one.
\* The whitespace of the C locale: space, tab, newline, carriage return,
\* form feed and vertical tab.
AsciiSpace == {" ", "\t", "\n", "\r", "\f", ""}

\* The separators U+001C to U+001F, whitespace to str but not to C.
SeparatorSpace == {"", "", "", ""}

\* The whitespace beyond ASCII that a string of this module can hold:
\* U+0085, U+00A0 and U+1680 (U+2000 and above cannot be written here).
WideSpace == {"", " ", " "}

\* The characters str.split() takes as separators (str.isspace()).
Whitespace == AsciiSpace \cup SeparatorSpace \cup WideSpace

\* str.split(): the maximal runs of characters that are not whitespace,
\* taken one run at a time from position i on.
RECURSIVE SplitFrom(_, _, _)
SplitFrom(ln, i, acc) ==
    LET rest == {k \in i..Len(ln) : ln[k] \notin Whitespace}
    IN  IF rest = {} THEN acc
        ELSE LET first == CHOOSE k \in rest : \A j \in rest : k <= j
                 stops == {k \in first..Len(ln) : ln[k] \in Whitespace}
                 stop == IF stops = {} THEN Len(ln) + 1
                         ELSE CHOOSE k \in stops : \A j \in stops : k <= j
             IN  SplitFrom(ln, stop, Append(acc, SubSeq(ln, first, stop - 1)))

split(ln) == SplitFrom(ln, 1, <<>>)

reg_map == (<<"a">> :> 0) @@ (<<"b">> :> 1) @@ (<<"c">> :> 2) @@ (<<"d">> :> 3)

\* op_map of Day 23's, Day 25's and Day 12's decoder.
op_map23 ==
    (<<"c", "p", "y">> :> "CPY") @@ (<<"i", "n", "c">> :> "INC") @@
    (<<"d", "e", "c">> :> "DEC") @@ (<<"j", "n", "z">> :> "JNZ") @@
    (<<"t", "g", "l">> :> "TGL")

op_map25 == op_map23 @@ (<<"o", "u", "t">> :> "OUT")

op_map12 ==
    (<<"c", "p", "y">> :> "CPY") @@ (<<"i", "n", "c">> :> "INC") @@
    (<<"d", "e", "c">> :> "DEC") @@ (<<"j", "n", "z">> :> "JNZ")

DigitChars ==
    <<
      {"0", "۰", "߀", "০", "૦", "௦", "೦", "෦", "໐", "႐", "០", "᧐", "᪀", "᪐", "᮰", "꣐", "꧐", "꧰", "꯰"},
      {"1", "۱", "߁", "১", "૧", "௧", "೧", "෧", "໑", "႑", "១", "᧑", "᪁", "᪑", "᮱", "꣑", "꧑", "꧱", "꯱"},
      {"2", "۲", "߂", "২", "૨", "௨", "೨", "෨", "໒", "႒", "២", "᧒", "᪂", "᪒", "᮲", "꣒", "꧒", "꧲", "꯲"},
      {"3", "۳", "߃", "৩", "૩", "௩", "೩", "෩", "໓", "႓", "៣", "᧓", "᪃", "᪓", "᮳", "꣓", "꧓", "꧳", "꯳"},
      {"4", "۴", "߄", "৪", "૪", "௪", "೪", "෪", "໔", "႔", "៤", "᧔", "᪄", "᪔", "᮴", "꣔", "꧔", "꧴", "꯴"},
      {"5", "۵", "߅", "৫", "૫", "௫", "೫", "෫", "໕", "႕", "៥", "᧕", "᪅", "᪕", "᮵", "꣕", "꧕", "꧵", "꯵"},
      {"6", "۶", "߆", "৬", "૬", "௬", "೬", "෬", "໖", "႖", "៦", "᧖", "᪆", "᪖", "᮶", "꣖", "꧖", "꧶", "꯶"},
      {"7", "۷", "߇", "৭", "૭", "௭", "೭", "෭", "໗", "႗", "៧", "᧗", "᪇", "᪗", "᮷", "꣗", "꧗", "꧷", "꯷"},
      {"8", "۸", "߈", "৮", "૮", "௮", "೮", "෮", "໘", "႘", "៨", "᧘", "᪈", "᪘", "᮸", "꣘", "꧘", "꧸", "꯸"},
      {"9", "۹", "߉", "৯", "૯", "௯", "೯", "෯", "໙", "႙", "៩", "᧙", "᪉", "᪙", "᮹", "꣙", "꧙", "꧹", "꯹"}
    >>

\* The decimal value of a character of Unicode category Nd: the ASCII
\* digits and the digits of other scripts a string of this module can hold.
Digit ==
    [c \in UNION {DigitChars[v] : v \in 1..10} |->
        (CHOOSE v \in 1..10 : c \in DigitChars[v]) - 1]

RECURSIVE DigitsValue(_, _)
DigitsValue(ds, k) ==
    IF k = 0 THEN 0 ELSE 10 * DigitsValue(ds, k - 1) + Digit[ds[k]]

\* What int(p) strips from both ends of p: the C whitespace, and the
\* whitespace beyond ASCII (which it first turns into spaces); U+001C to
\* U+001F stay and make the token malformed.
IntSpace == AsciiSpace \cup WideSpace

Strip(p) ==
    LET keep == {k \in 1..Len(p) : p[k] \notin IntSpace}
    IN  IF keep = {} THEN <<>>
        ELSE SubSeq(p, CHOOSE k \in keep : \A j \in 1..k - 1 : p[j] \in IntSpace,
                       CHOOSE k \in keep : \A j \in k + 1..Len(p) : p[j] \in IntSpace)

IsDigitChar(c) == c \in DOMAIN Digit

\* sys.get_int_max_str_digits(): the interpreter's default limit on the
\* number of digits int() converts; the repository never changes it.
int_max_str_digits == 4300

\* The digits from the first one that is not a zero.
Significant(digits) ==
    LET nz == {k \in 1..Len(digits) : Digit[digits[k]] # 0}
    IN  IF nz = {} THEN <<>>
        ELSE SubSeq(digits, CHOOSE k \in nz : \A j \in nz : k <= j, Len(digits))

\* int(p) in base 10: whitespace stripped from the ends, an optional sign,
\* then digits, where single underscores may stand between two digits, and
\* at most int_max_str_digits digits (leading zeros counted, sign and
\* underscores not); anything else is a ValueError (ok = FALSE).
int(p) ==
    LET t == Strip(p)
        signed == t # <<>> /\ t[1] \in {"+", "-"}
        ds == IF signed THEN Tail(t) ELSE t
        digits == SelectSeq(ds, IsDigitChar)
        ok == /\ ds # <<>>
              /\ \A k \in 1..Len(ds) : IsDigitChar(ds[k]) \/ ds[k] = "_"
              /\ ds[1] # "_"
              /\ ds[Len(ds)] # "_"
              /\ \A k \in 1..Len(ds) - 1 : ~(ds[k] = "_" /\ ds[k + 1] = "_")
              /\ Len(digits) <= int_max_str_digits
        sig == Significant(digits)
    IN  [ok |-> ok,
         val |-> IF ~ok THEN 0
                 ELSE IF signed /\ t[1] = "-" THEN -DigitsValue(sig, Len(sig))
                 ELSE DigitsValue(sig, Len(sig))]

\* The loop over parts[1:]: a register letter, else an integer, else the
\* ValueError leaves the decoder.
RECURSIVE DecodeArgs(_, _, _)
DecodeArgs(parts, k, args) ==
    IF k > Len(parts) THEN [ok |-> TRUE, args |-> args]
    ELSE IF parts[k] \in DOMAIN reg_map
         THEN DecodeArgs(parts, k + 1, Append(args, R(reg_map[parts[k]])))
    ELSE IF int(parts[k]).ok
         THEN DecodeArgs(parts, k + 1, Append(args, L(int(parts[k]).val)))
    ELSE [ok |-> FALSE, args |-> <<>>]

\* AssembunnyInterpreter._parse (Day 23 and Day 25, which differ in op_map):
\* a line that is blank or does not start with a key of op_map is passed
\* over; ok = FALSE is the ValueError.
RECURSIVE ParseFrom(_, _, _, _)
ParseFrom(raw, i, parsed, op_map) ==
    IF i > Len(raw) THEN [ok |-> TRUE, parsed |-> parsed]
    ELSE LET parts == split(raw[i])
         IN  IF parts = <<>> \/ parts[1] \notin DOMAIN op_map
             THEN ParseFrom(raw, i + 1, parsed, op_map)
             ELSE LET d == DecodeArgs(parts, 2, <<>>)
                  IN  IF ~d.ok THEN [ok |-> FALSE, parsed |-> <<>>]
                      ELSE ParseFrom(raw, i + 1,
                                     Append(parsed, Instruction(op_map[parts[1]], d.args)),
                                     op_map)

parse(raw, op_map) == ParseFrom(raw, 1, <<>>, op_map)

\* The pre-parse loop of run_program (Day 12): parts[0] of a blank line is
\* an IndexError, op_map[parts[0]] of any other first token a KeyError,
\* int(p) a ValueError; ok = FALSE is any of the three.
RECURSIVE ParseFrom12(_, _, _)
ParseFrom12(raw, i, parsed) ==
    IF i > Len(raw) THEN [ok |-> TRUE, parsed |-> parsed]
    ELSE LET parts == split(raw[i])
         IN  IF parts = <<>> \/ parts[1] \notin DOMAIN op_map12
             THEN [ok |-> FALSE, parsed |-> <<>>]
             ELSE LET d == DecodeArgs(parts, 2, <<>>)
                  IN  IF ~d.ok THEN [ok |-> FALSE, parsed |-> <<>>]
                      ELSE ParseFrom12(raw, i + 1,
                                       Append(parsed, Instruction(op_map12[parts[1]], d.args)))

parse12(raw) == ParseFrom12(raw, 1, <<>>)

\* A literal of n zeros.
Zeros(n) == [k \in 1..n |-> "0"]

\* The lines the Decoder is tried on.
Lines ==
    {
     <<"c", "p", "y", " ", "1", " ", "a">>,                       \* 'cpy 1 a'
     <<"i", "n", "c", " ", "a">>,                                 \* 'inc a'
     <<"j", "n", "z", " ", "a", " ", "-", "2">>,                  \* 'jnz a -2'
     <<"t", "g", "l", " ", "a">>,                                 \* 'tgl a'
     <<"o", "u", "t", " ", "a">>,                                 \* 'out a'
     <<>>,                                                        \* ''
     <<"n", "o", "p">>,                                           \* 'nop'
     <<"c", "p", "y", " ", "x", " ", "a">>,                       \* 'cpy x a'
     <<" ", " ", "d", "e", "c", " ", " ", "b", " ">>,             \* '  dec  b '
     <<"n", "o", "p", " ", "x">>,                                 \* 'nop x'
     <<"d", "e", "c", " ", "-">>,                                 \* 'dec -'
     <<"c", "p", "y", " ", "+", "1", " ", "b">>,                  \* 'cpy +1 b'
     <<"i", "n", "c", "\t", "b">>,                                \* 'inc<tab>b'
     <<"d", "e", "c", " ", "a", "\r", "\n">>,                     \* 'dec a<cr><newline>'
     <<"\t", "\f">>,                                             \* '<tab><form feed>'
     <<"c", "p", "y", " ", "1", "_", "0", " ", "a">>,             \* 'cpy 1_0 a'
     <<"i", "n", "c", "", "a">>,                               \* 'inc<U+001F>a'
     <<"d", "e", "c", " ", "_", "1">>,                          \* 'dec<U+00A0>_1'
     <<"i", "n", "c", " ">> \o Zeros(int_max_str_digits + 1),      \* 'inc 00...0', one digit too many
     <<"d", "e", "c", " ">> \o Zeros(int_max_str_digits - 1) \o <<"7">>  \* 'dec 00...07', as many as allowed
    }

LoadInit ==
    /\ loaded \in SeqsUpTo(Lines, MaxLen)
    /\ instructions = <<>>
    /\ optimizations = NoOptimizations
    /\ regs = <<0, 0, 0, 0>>
    /\ pc = 0
    /\ seen_states = NoOptimizations
    /\ next_expected = 0
    /\ output_count = 0
    /\ status = "raw"
    /\ ret = 0
    /\ verdict = "none"
    /\ initial_a = 0
    /\ history = <<>>
    /\ toggles = <<>>
    /\ first_seen = NoOptimizations
    /\ ref = Idle
    /\ edited = NoEdit
    /\ a = 0
    /\ solve_ret = -2

\* What a load leaves: the decoded store and an object at rest, or the
\* exception and nothing.
Loaded(r, opt) ==
    /\ status' = IF r.ok THEN "idle" ELSE "error"
    /\ instructions' = r.parsed
    /\ optimizations' = IF r.ok /\ opt THEN find_optimizations(r.parsed)
                        ELSE NoOptimizations
    /\ UNCHANGED <<loaded, regs, pc, seen_states, next_expected, output_count,
                   ret, verdict, initial_a, history, toggles, first_seen, ref, edited, a,
                   solve_ret>>

\* AssembunnyInterpreter(instructions_raw) of Day 23.
load23 == status = "raw" /\ Loaded(parse(loaded, op_map23), FALSE)

\* AssembunnyInterpreter(instructions_raw) of Day 25, which also analyzes.
load25 == status = "raw" /\ Loaded(parse(loaded, op_map25), TRUE)

\* The pre-parse of run_program(instructions, initial_registers).
load12 == status = "raw" /\ Loaded(parse12(loaded), FALSE)

LoadNext == load23 \/ load25 \/ load12

LoadSpec == LoadInit /\ [][LoadNext]_vars

\* What the Decoder's contract gives for the lines of loaded under op_map:
\* the lines that start with a key of op_map, in order, each decoded, or a
\* decode error and no program when one of them has a malformed operand.
LoadsAsClaimed(op_map) ==
    LET Keep(ln) == split(ln) # <<>> /\ Head(split(ln)) \in DOMAIN op_map
        kept == SelectSeq(loaded, Keep)
        Operand(t) == IF t \in DOMAIN reg_map THEN R(reg_map[t]) ELSE L(int(t).val)
        Bad(ln) == \E k \in 2..Len(split(ln)) :
                       split(ln)[k] \notin DOMAIN reg_map /\ ~int(split(ln)[k]).ok
    IN  IF \E i \in 1..Len(kept) : Bad(kept[i])
        THEN status' = "error" /\ instructions' = <<>>
        ELSE /\ status' = "idle"
             /\ instructions' =
                    [i \in 1..Len(kept) |->
                        Instruction(op_map[Head(split(kept[i]))],
                                    [k \in 1..Len(split(kept[i])) - 1 |->
                                        Operand(split(kept[i])[k + 1])])]

\* C23: in each variant a load gives one instruction, in order, for every
\* line that starts with an opcode of that variant, passes over every other
\* line (blank or unrecognized) without error, and fails with no program
\* when a line that starts with an opcode has an operand that is neither a
\* register letter nor a signed integer.
C23_LoadRule ==
    [][/\ load23 => LoadsAsClaimed(op_map23)
       /\ load25 => LoadsAsClaimed(op_map25)
       /\ load12 => LoadsAsClaimed(op_map12)]_vars

\* ------------------------------------------------ the map and the store
\* The window at offset i of the store matches the idiom of the entry e.
EntryMatches(ins, i, e) ==
    \/ MulMatch(ins, i) /\ e = MulEntry(ins, i)
    \/ /\ AddMatchIncDec(ins, i)
       /\ e = AddEntry(At(ins, i).args[1].val, At(ins, i + 1).args[1].val)
    \/ /\ AddMatchDecInc(ins, i)
       /\ e = AddEntry(At(ins, i + 1).args[1].val, At(ins, i).args[1].val)

\* C24: at every step boundary of run (while it runs and when it has
\* returned) the Optimization Map is the Idiom Analyzer's map of the store
\* as it stands: every entry sits on a window that matches now (none is
\* stale after a toggle inside its window), and every matching window has
\* an entry unless it starts inside the span of an entry before it.
C24_MapIsAnalysis ==
    status \in {"running", "returned"} =>
        /\ optimizations = find_optimizations(instructions)
        /\ \A i \in DOMAIN optimizations :
               EntryMatches(instructions, i, optimizations[i])
        /\ \A i \in 0..Len(instructions) - 1 :
               (MulMatch(instructions, i) \/ AddMatchIncDec(instructions, i)
                    \/ AddMatchDecInc(instructions, i)) =>
                   \/ i \in DOMAIN optimizations
                   \/ \E j \in DOMAIN optimizations :
                          j < i /\ i < j + optimizations[j].skip

\* tgl 3 has turned the jnz of inc a; dec b; jnz b -2 into a cpy: the entry
\* at offset 1, two below the toggled instruction, is gone.
C24_Witness ==
    /\ loaded = <<tgl(L(3)), inc(R(0)), dec(R(1)), jnz(R(1), L(-2))>>
    /\ status = "running" /\ pc = 1
    /\ instructions[4].op = "CPY"
    /\ 1 \in DOMAIN find_optimizations(loaded)
    /\ optimizations = NoOptimizations

\* ---------------------------------------------------- exact windows only
\* The ADD idiom matched exactly at offset i: inc x; dec y; jnz y -2 or
\* dec y; inc x; jnz y -2 with x and y register arguments.
ExactAdd(ins, i) ==
    /\ i + 2 < Len(ins)
    /\ \/ At(ins, i).op = "INC" /\ At(ins, i + 1).op = "DEC"
          /\ At(ins, i + 2).args[1] = At(ins, i + 1).args[1]
       \/ At(ins, i).op = "DEC" /\ At(ins, i + 1).op = "INC"
          /\ At(ins, i + 2).args[1] = At(ins, i).args[1]
    /\ At(ins, i).args[1].is_reg
    /\ At(ins, i + 1).args[1].is_reg
    /\ At(ins, i + 2).op = "JNZ"
    /\ At(ins, i + 2).args[1].is_reg
    /\ At(ins, i + 2).args[2] = L(-2)

\* The MUL idiom matched exactly at offset i: cpy b c; inc a; dec c;
\* jnz c -2; dec d; jnz d -5 with a, c and d register arguments.
ExactMul(ins, i) ==
    /\ i + 5 < Len(ins)
    /\ At(ins, i).op = "CPY" /\ At(ins, i).args[2].is_reg
    /\ At(ins, i + 1).op = "INC" /\ At(ins, i + 1).args[1].is_reg
    /\ At(ins, i + 2).op = "DEC" /\ At(ins, i + 2).args[1] = At(ins, i).args[2]
    /\ At(ins, i + 3).op = "JNZ" /\ At(ins, i + 3).args[1] = At(ins, i).args[2]
    /\ At(ins, i + 3).args[2] = L(-2)
    /\ At(ins, i + 4).op = "DEC" /\ At(ins, i + 4).args[1].is_reg
    /\ At(ins, i + 5).op = "JNZ" /\ At(ins, i + 5).args[1] = At(ins, i + 4).args[1]
    /\ At(ins, i + 5).args[2] = L(-5)

\* C25: the Optimization Map run works with holds an ADD (MUL) entry only
\* at an offset where the window matches the idiom exactly: the operands
\* of inc and dec, the destination of cpy and the condition of each jnz
\* are register arguments, the offsets are the literals -2 (and -5), and
\* each jnz tests the register decremented; a literal whose value equals a
\* register index does not make a match.
C25_OnlyExactWindows ==
    status \in {"running", "returned"} =>
        \A i \in DOMAIN optimizations :
            IF optimizations[i].op = "MUL" THEN ExactMul(instructions, i)
            ELSE ExactAdd(instructions, i)

\* ------------------------------------------------- what a repeated key means
\* C26: when test_clock_signal is about to look up a key (pc, registers,
\* next_expected) that is already in seen_states, the Instruction Store is
\* opcode for opcode the one it was when the key was recorded, so that the
\* whole machine state is the same and execution repeats.
C26_RepeatIsWholeState ==
    (status = "running" /\ LoopCond(Self) /\ Key \in DOMAIN seen_states)
        => first_seen[Key] = instructions

\* ------------------------------------------------------ spans of the map
\* C27: in the map run works with, every entry's span [i, i + skip) lies
\* inside [0, len), the spans of two entries never share an offset, and a
\* MUL entry has span 6 with no other entry inside it, in particular no ADD
\* entry for the inner inc; dec; jnz at i + 1.
C27_SpansDisjoint ==
    status \in {"running", "returned"} =>
        /\ \A i \in DOMAIN optimizations :
               /\ 0 <= i
               /\ i + optimizations[i].skip <= Len(instructions)
               /\ optimizations[i].op = "MUL" =>
                      /\ optimizations[i].skip = 6
                      /\ \A k \in (i + 1)..(i + 5) : k \notin DOMAIN optimizations
        /\ \A i, j \in DOMAIN optimizations :
               i < j => i + optimizations[i].skip <= j

\* A MUL entry at offset 1 whose inner inc; dec; jnz at offset 2 matches the
\* ADD idiom and has no entry.
C27_Witness ==
    /\ status = "running"
    /\ 1 \in DOMAIN optimizations
    /\ optimizations[1].op = "MUL"
    /\ AddMatchIncDec(instructions, 2)
    /\ 2 \notin DOMAIN optimizations

\* ------------------------------------------------------ the frame of TGL
\* C28: an iteration of test_clock_signal that executes a TGL leaves the
\* registers, the length of the store, every argument list and every
\* opcode but the target's as they were, emits nothing, and moves pc
\* forward by exactly one, also when the TGL is its own target.
C28_TglFrame ==
    [][(ClockExecutes(Self, "TGL") /\ clock_step) =>
           /\ status' = "running"
           /\ pc' = pc + 1
           /\ regs' = regs
           /\ next_expected' = next_expected
           /\ output_count' = output_count
           /\ Len(instructions') = Len(instructions)
           /\ \A k \in 1..Len(instructions) :
                  /\ instructions'[k].args = instructions[k].args
                  /\ k # TargetIdx(Self) + 1 =>
                         instructions'[k].op = instructions[k].op]_vars

\* tgl a with a = 0 at offset 0 has toggled itself into inc a, and pc is 1.
C28_Witness ==
    /\ loaded[1] = tgl(R(0))
    /\ Len(loaded) > 1
    /\ Len(toggles) = 1
    /\ toggles[1] = [target |-> 0, before |-> "TGL", after |-> "INC"]
    /\ instructions[1] = inc(R(0))
    /\ status = "running"
    /\ pc = 1

\* ------------------------------------------------- the alternation counters
\* C29: throughout test_clock_signal next_expected is output_count mod 2;
\* output_count never goes down and goes up only by one, at an executed OUT
\* whose value is output_count mod 2 (so the outputs accepted so far are
\* 0, 1, 0, 1, ... of length output_count); an iteration that applies a
\* fused ADD or MUL changes neither counter.
C29_Counters ==
    /\ [](next_expected = output_count % 2)
    /\ [][/\ output_count' >= output_count
          /\ (output_count' # output_count) =>
                 (/\ output_count' = output_count + 1
                  /\ next_expected' = 1 - next_expected
                  /\ ClockExecutes(Self, "OUT")
                  /\ Resolve(regs, Fetch(Self).args[1]) = output_count % 2)
          /\ (clock_step /\ (Key \notin DOMAIN seen_states)
                         /\ (pc \in DOMAIN optimizations)) =>
                 (output_count' = output_count /\ next_expected' = next_expected)]_vars

\* out 0; cpy 1 b; inc c; dec b; jnz b -2; out c; jnz 1 -6 after the fused
\* ADD and the second accepted output.
C29_Witness ==
    /\ Len(loaded) = 7
    /\ 2 \in DOMAIN optimizations
    /\ status = "running"
    /\ pc = 6
    /\ regs = <<0, 0, 1, 0>>
    /\ output_count = 2
    /\ next_expected = 0

\* ------------------------------------------- run_program against run
\* The same program and the same initial a given to run_program (Day 12,
\* the interpreter's own variables) and to AssembunnyInterpreter.run
\* (Day 23, the machine ref); the two calls do not share anything and are
\* stepped in any order.
RefineInit ==
    /\ loaded \in Programs12
    /\ initial_a \in InitialAs
    /\ instructions = loaded
    /\ optimizations = NoOptimizations
    /\ regs = <<initial_a, 0, 0, 0>>
    /\ pc = 0
    /\ seen_states = NoOptimizations
    /\ next_expected = 0
    /\ output_count = 0
    /\ status = "running"
    /\ ret = 0
    /\ verdict = "none"
    /\ history = <<>>
    /\ toggles = <<>>
    /\ first_seen = NoOptimizations
    /\ ref = run_enter(loaded, initial_a)
    /\ edited = NoEdit
    /\ a = 0
    /\ solve_ret = -2

\* One iteration of run_program's loop, or its return.
refine_plain ==
    /\ status = "running"
    /\ LoopCond(Self) => InRange(run12_iter(Self).regs)
    /\ SetSelf(IF LoopCond(Self) THEN run12_iter(Self) ELSE run12_exit(Self))
    /\ UNCHANGED <<loaded, initial_a, history, toggles, first_seen, ref, edited,
                   a, solve_ret>>

\* One iteration of run's loop, or its return.
refine_run ==
    /\ ref.status = "running"
    /\ LoopCond(ref) => InRange(run_iter(ref).regs)
    /\ ref' = IF LoopCond(ref) THEN run_iter(ref) ELSE run_exit(ref)
    /\ UNCHANGED <<loaded, instructions, optimizations, regs, pc, seen_states,
                   next_expected, output_count, status, ret, verdict,
                   initial_a, history, toggles, first_seen, edited, a, solve_ret>>

RefineNext == refine_plain \/ refine_run

RefineSpec == RefineInit /\ [][RefineNext]_vars

\* C30: on a program without TGL and OUT and any initial a (b = c = d = 0),
\* run_program and run end alike: when both have returned the final a is
\* the same, and neither raises where the other returns; this covers jnz
\* with its offset in a register and cpy with a literal destination.
C30_SameFinalA ==
    /\ (status = "returned" /\ ref.status = "returned") => ret = ref.ret
    /\ ~(status = "error" /\ ref.status = "returned")
    /\ ~(status = "returned" /\ ref.status = "error")

====
